---- MODULE Spec2Model ----
(***************************************************************************)
(* Model of the research-to-deck pipeline of ai-ppt-researcher:            *)
(*   backend/app/services/pipeline.py      agents, renderer, orchestrator  *)
(*   backend/app/core/charts/chart_generator.py   chart renderer           *)
(*   backend/app/api/routes/progress.py    streaming (websocket) endpoint  *)
(*   backend/app/api/routes/generate.py    non-streaming endpoint          *)
(*                                                                         *)
(* Python values are modelled by shape.  A dict is a function from its     *)
(* keys; the value json.loads returns is tagged dict / list / num, since   *)
(* the code behaves differently on each (.get and .setdefault exist on a   *)
(* dict only, len on a dict or list only).  The generative client is the   *)
(* environment: each call raises, returns text that is not JSON, or        *)
(* returns JSON of one of the bounded shapes listed below.                 *)
(***************************************************************************)
EXTENDS Integers, Sequences, FiniteSets, TLC

VARIABLES
    mode,             \* "ws": /ws/progress serves the request; "http": POST /generate
    topic,            \* the request's topic
    pc,               \* position of the generator run_research_pipeline_stream
    events,           \* every event the generator has yielded, in order
    delivered,        \* how many of them the consumer has taken
    raisedIn,         \* the stage whose exception escaped or was caught ("none" if none)
    exc,              \* the exception text of that stage ("" if none)
    started,          \* the stage functions invoked so far, in order
    calls,            \* the generative-client calls issued so far, in order
    sources,          \* local `sources` of the generator
    research_summary, \* local `research_summary`
    validation,       \* local `validation`
    chart_plan,       \* local `chart_plan`
    recommendations,  \* local `recommendations`
    slide_plan,       \* local `slide_plan` as handed to generate_ppt
    deck,             \* the slides of the saved presentation, in order
    saved,            \* the (filename, path) generate_ppt returned, <<>> before
    chart_files,      \* local `chart_files` of generate_ppt: what generate_charts returned
    chart_failure,    \* <<genFail, insFail>>: the chart whose generation raised and the
                      \* chart whose insertion raised in that rendering (0: none)
    frames,           \* the JSON frames sent on the websocket, in order
    conn,             \* the consumer: "open", "closed" (ws) / "returned", "faulted" (http)
    final_result,     \* local `final_result` of run_research_pipeline
    response,         \* what the non-streaming caller receives
    unit_in,          \* the function under unit examination and its arguments
    unit_out,         \* what that function returned ([fn |-> "none"] before the call)
    runs,             \* the requests sharing the event loop: each one's generator
    running,          \* the request whose task holds the loop's thread (0: none)
    clock,            \* the minute datetime.now() shows
    outputs           \* the files of the output directory, decks and chart
                      \* images: name -> last writer

vars == <<mode, topic, pc, events, delivered, raisedIn, exc, started, calls,
          sources, research_summary, validation, chart_plan, recommendations,
          slide_plan, deck, saved, chart_files, chart_failure, frames, conn,
          final_result, response, unit_in, unit_out, runs, running, clock, outputs>>

\* the variables the request pipeline never touches
unitVars == <<unit_in, unit_out>>
\* the variables of several requests on one event loop
runVars == <<runs, running, clock, outputs>>

(***************************************************************************)
(* Bounds of the model.                                                    *)
(***************************************************************************)
\* longest "sources" list the generative client returns
MaxSources == 1
\* longest "sections" list the generative client returns
MaxSections == 2
\* longest topic, in characters, handed to _slugify on its own
MaxTopicLen == 3
\* the clock's last minute, counted from 2025-01-01 12:00
MaxMinute == 1

(***************************************************************************)
(* Text.  A str is the sequence of its characters; Str gives the string    *)
(* the model's events and headings carry.                                  *)
(***************************************************************************)
RECURSIVE Str(_)
Str(cs) == IF cs = <<>> THEN "" ELSE cs[1] \o Str(Tail(cs))

LowerLetters == {"a", "b", "c", "d", "e", "f", "g", "h", "i", "j", "k", "l", "m",
                 "n", "o", "p", "q", "r", "s", "t", "u", "v", "w", "x", "y", "z"}
Digits == {"0", "1", "2", "3", "4", "5", "6", "7", "8", "9"}
Whitespace == {" "}

\* str.lower on one character, for the capitals the model's topics hold
Lower(c) ==
    CASE c = "A" -> "a"
      [] c = "E" -> "e"
      [] c = "V" -> "v"
      [] OTHER -> c

\* str.strip(chars)
RECURSIVE LStrip(_, _)
LStrip(cs, chars) ==
    IF cs # <<>> /\ cs[1] \in chars THEN LStrip(Tail(cs), chars) ELSE cs
RECURSIVE RStrip(_, _)
RStrip(cs, chars) ==
    IF cs # <<>> /\ cs[Len(cs)] \in chars
    THEN RStrip(SubSeq(cs, 1, Len(cs) - 1), chars) ELSE cs
Strip(cs, chars) == RStrip(LStrip(cs, chars), chars)

\* re.sub(r"[X]+", "-", text): every maximal run of characters of the class
\* becomes one hyphen
RECURSIVE SubRuns(_, _)
SubRuns(cs, class) ==
    IF cs = <<>> THEN <<>>
    ELSE IF cs[1] \in class
         THEN <<"-">> \o SubRuns(LStrip(cs, class), class)
         ELSE <<cs[1]>> \o SubRuns(Tail(cs), class)

\* the characters a topic is written in, and the class [^a-z0-9] among them
Alphabet == {"a", "A", "1", " ", "-", "!", "e_acute"}
NotSlugChar == (Alphabet \cup {"E", "V"}) \ (LowerLetters \cup Digits)

\* _slugify without the final strip("-")
_slugify_KeepsHyphens(text) ==
    LET lowered == [i \in DOMAIN Strip(text, Whitespace) |-> Lower(Strip(text, Whitespace)[i])]
        hyphened == SubRuns(lowered, NotSlugChar)
        collapsed == SubRuns(hyphened, {"-"})
    IN  IF collapsed = <<>> THEN <<"r", "e", "p", "o", "r", "t">> ELSE collapsed

\* _slugify
_slugify(text) ==
    LET lowered == [i \in DOMAIN Strip(text, Whitespace) |-> Lower(Strip(text, Whitespace)[i])]
        hyphened == SubRuns(lowered, NotSlugChar)
        collapsed == Strip(SubRuns(hyphened, {"-"}), {"-"})
    IN  IF collapsed = <<>> THEN <<"r", "e", "p", "o", "r", "t">> ELSE collapsed

\* the minutes the clock shows, and datetime.now().strftime("%Y%m%d_%H%M")
Minutes == 0..MaxMinute
strftime(now) == "20250101_12" \o (IF now < 10 THEN "0" ELSE "") \o ToString(now)

(***************************************************************************)
(* Python dict operations.                                                 *)
(***************************************************************************)
EmptyDict == <<>>

\* d.get(k, default)
Get(d, k, default) == IF k \in DOMAIN d THEN d[k] ELSE default

\* d.setdefault(k, v): d afterwards
SetDefault(d, k, v) == IF k \in DOMAIN d THEN d ELSE d @@ (k :> v)

\* d.update(e): d afterwards (the entries of e win)
Update(d, e) == e @@ d

\* values json.loads can return
JDict(d) == [t |-> "dict", d |-> d]
JList(xs) == [t |-> "list", items |-> xs]
JNum == [t |-> "num"]
IsDict(v) == v.t = "dict"

\* outcome of a function call: an exception or a value
Raise(e) == [raised |-> TRUE, exc |-> e]
Return(v) == [raised |-> FALSE, value |-> v]

(***************************************************************************)
(* The generative client, _call_llm: it raises (no API key, transport or   *)
(* API error, unreadable response), or returns text; the text is not JSON, *)
(* or it is JSON of some value.                                            *)
(***************************************************************************)
LlmRaise == [kind |-> "raise"]
LlmText == [kind |-> "text"]
LlmJson(v) == [kind |-> "json", value |-> v]

\* _call_llm raised
CallRaises(out) == out.kind = "raise"

\* json.loads(raw) raised
ParseFails(out) == out.kind = "text"

LlmError == "generative client error"

(***************************************************************************)
(* Shapes of the generative output, per agent.                             *)
(***************************************************************************)
SeqsUpTo(S, n) == UNION {[1..k -> S] : k \in 0..n}

\* a source with the three fields the prompt asks for, and one without url/content
FullSource == [url |-> "https://a.example", title |-> "A", content |-> "text"]
BareSource == [title |-> "A"]

\* what the source collector's call can give
SourcingOutputs ==
    {LlmRaise, LlmText, LlmJson(JList(<<>>)), LlmJson(JDict(EmptyDict)),
     LlmJson(JDict([sources |-> JNum]))}
    \cup {LlmJson(JDict([sources |-> JList(xs)])) :
              xs \in SeqsUpTo({FullSource, BareSource}, MaxSources)}

\* what the summarizer's call can give
SummaryOutputs ==
    {LlmRaise, LlmText, LlmJson(JList(<<>>)),
     LlmJson(JDict([summary |-> "s", key_points |-> <<"k">>, sources_used |-> <<>>]))}

\* what the validator's call can give
ValidationOutputs ==
    {LlmRaise, LlmText, LlmJson(JList(<<>>)),
     LlmJson(JDict([validated_summary |-> "v", confidence |-> "certain"]))}

\* what the recommender's call can give
RecommendationOutputs ==
    {LlmRaise, LlmText, LlmJson(JDict([key_recommendations |-> <<"r">>]))}

\* the five chart kinds of the data model
ChartKeys ==
    {"market_size", "market_share", "growth_projection", "competitor_strengths",
     "trend_frequency"}

\* chart_data objects the generative client returns: a chart kind maps to the
\* origin of its label->number data (here the agent whose call returned it)
LlmChartKeySets == {{}, {"market_size", "competitors"}, ChartKeys}
LlmChartData(origin) == {[k \in K |-> origin] : K \in LlmChartKeySets}

\* what the chart planner's call can give
ChartPlanOutputs ==
    {LlmRaise, LlmText, LlmJson(JList(<<>>)), LlmJson(JDict(EmptyDict))}
    \cup {LlmJson(JDict([chart_data |-> cd])) : cd \in LlmChartData("chart_llm")}

\* a section as the prompt asks for it
LlmSection == [heading |-> "H", bullets |-> <<"b1", "b2", "b3">>]
LlmSections == {[i \in 1..n |-> LlmSection] : n \in 0..MaxSections}

\* what the slide planner's call can give
SlidePlanOutputs ==
    {LlmRaise, LlmText, LlmJson(JList(<<>>)), LlmJson(JDict(EmptyDict))}
    \cup {LlmJson(JDict([title |-> "T", sections |-> secs, conclusion_bullets |-> cb,
                         chart_data |-> cd])) :
              secs \in LlmSections, cb \in {<<"c1">>},
              cd \in LlmChartData("slide_llm")}
    \cup {LlmJson(JDict([title |-> "T", sections |-> secs, sources_used |-> <<FullSource>>])) :
              secs \in LlmSections}

(***************************************************************************)
(* The agents.                                                             *)
(***************************************************************************)
SyntheticSource(t) ==
    [url |-> "https://synthetic.example.com/" \o t, title |-> "Overview of " \o t,
     content |-> "Synthetic summary for " \o t \o "."]

\* collect_sources: the call is outside the try; a parse failure, and a JSON
\* value without .get, give the one synthetic source
collect_sources(t, out) ==
    IF CallRaises(out) THEN Raise(LlmError)
    ELSE IF ParseFails(out) \/ ~IsDict(out.value) THEN Return(JList(<<SyntheticSource(t)>>))
    ELSE Return(Get(out.value.d, "sources", JList(<<>>)))

\* len(x) is defined on a list, not on a number
HasLen(v) == v.t = "list"

\* s['url'] or s['content'] raises for some source of the list
JoinRaises(items) ==
    \E i \in 1..Len(items) : ~({"url", "content"} \subseteq DOMAIN items[i])

Urls(items) == [i \in 1..Len(items) |-> items[i].url]

\* build_research_summary: the prompt is joined from the sources, then one call;
\* setdefault is applied to whatever json.loads returned
build_research_summary(t, srcs, out) ==
    IF JoinRaises(srcs) THEN Raise("KeyError: 'url'")
    ELSE IF CallRaises(out) THEN Raise(LlmError)
    ELSE LET data == IF ParseFails(out)
                     THEN JDict([topic |-> t, summary |-> "raw", key_points |-> <<>>,
                                 statistics |-> <<>>, trends |-> <<>>, challenges |-> <<>>,
                                 opportunities |-> <<>>, sources_used |-> Urls(srcs)])
                     ELSE out.value
         IN  IF ~IsDict(data) THEN Raise("AttributeError: setdefault")
             ELSE Return(JDict(SetDefault(SetDefault(data.d, "topic", t),
                                          "sources_used", Urls(srcs))))

\* validate_research: the defaults apply on a parse failure only; any JSON value
\* is returned as it is
validate_research(research, out) ==
    IF CallRaises(out) THEN Raise(LlmError)
    ELSE IF ParseFails(out)
         THEN Return(JDict([validated_summary |-> Get(research, "summary", ""),
                            validated_key_points |-> Get(research, "key_points", <<>>),
                            caveats |-> <<>>, confidence |-> "medium",
                            things_to_double_check |-> <<>>]))
         ELSE Return(out.value)

\* the chart planner's defaults on a parse failure
DefaultChartPlanData == [k \in ChartKeys |-> "chart_default"]

\* plan_charts_from_research
plan_charts_from_research(research, out) ==
    IF CallRaises(out) THEN Raise(LlmError)
    ELSE LET data == IF ParseFails(out) THEN JDict([chart_data |-> DefaultChartPlanData])
                     ELSE out.value
         IN  IF ~IsDict(data) THEN Raise("AttributeError: setdefault")
             ELSE Return(JDict(SetDefault(data.d, "chart_data", EmptyDict)))

\* generate_recommendations
generate_recommendations(research, out) ==
    IF CallRaises(out) THEN Raise(LlmError)
    ELSE IF ParseFails(out)
         THEN Return(JDict([key_recommendations |-> <<>>, action_plan |-> <<>>,
                            summary_recommendations |-> <<>>]))
         ELSE Return(out.value)

\* generate_slide_plan
generate_slide_plan(research, theme, out) ==
    IF CallRaises(out) THEN Raise(LlmError)
    ELSE LET data == IF ParseFails(out)
                     THEN JDict([title |-> Get(research, "topic", "Report"),
                                 subtitle |-> "Auto-generated", sections |-> <<>>,
                                 conclusion_bullets |-> <<>>, chart_data |-> EmptyDict])
                     ELSE out.value
         IN  IF ~IsDict(data) THEN Raise("AttributeError: setdefault")
             ELSE Return(JDict(
                     SetDefault(SetDefault(SetDefault(SetDefault(SetDefault(SetDefault(
                         data.d,
                         "title", Get(research, "topic", "Report")),
                         "subtitle", "Auto-generated"),
                         "sections", <<>>),
                         "conclusion_bullets", <<>>),
                         "chart_data", EmptyDict),
                         "theme_config", theme)))

\* the fixed outline of auto_expand_slide_plan
FallbackHeadings ==
    <<"Executive Summary", "Market Overview", "Industry Trends", "Challenges",
      "Opportunities", "Competitive Landscape", "SWOT Analysis", "Use Cases",
      "Future Outlook">>
FallbackBullets ==
    <<<<"Overview", "Key insights", "Business snapshot">>,
      <<"Market size", "Growth rate", "Segments", "Drivers">>,
      <<"Trend 1", "Trend 2", "Trend 3">>,
      <<"Challenge 1", "Challenge 2", "Challenge 3">>,
      <<"Opportunity 1", "Opportunity 2">>,
      <<"Player A", "Player B", "Player C">>,
      <<"Strengths", "Weaknesses", "Opportunities", "Threats">>,
      <<"Use Case 1", "Use Case 2">>,
      <<"Forecast", "Emerging tech">>>>
FallbackSections ==
    [i \in 1..Len(FallbackHeadings) |->
        [heading |-> FallbackHeadings[i], bullets |-> FallbackBullets[i]]]

\* fewest sections auto_expand_slide_plan leaves alone
MinSections == 5

\* auto_expand_slide_plan (defined in pipeline.py; no caller in the repository)
auto_expand_slide_plan(plan) ==
    LET p1 == IF Len(Get(plan, "sections", <<>>)) < MinSections
              THEN [k \in DOMAIN plan \cup {"sections"} |->
                        IF k = "sections" THEN FallbackSections ELSE plan[k]]
              ELSE plan
        p2 == SetDefault(p1, "chart_data", EmptyDict)
        cd == [k \in DOMAIN p2["chart_data"] \cup ChartKeys |->
                  IF k \in DOMAIN p2["chart_data"] THEN p2["chart_data"][k]
                  ELSE "expand_default"]
    IN  [k \in DOMAIN p2 |-> IF k = "chart_data" THEN cd ELSE p2[k]]

(***************************************************************************)
(* The renderers.                                                          *)
(***************************************************************************)
\* the chart_data keys generate_charts looks for, in its order
RenderKeys == <<"market_size", "market_share", "growth_projection", "competitors", "trends">>

\* the image a chart kind is saved as (named by kind, the same in every run)
ChartFile(k) == "chart_" \o k \o ".png"

\* the kinds generate_charts attempts for a slide plan
RequestedCharts(plan) ==
    SelectSeq(RenderKeys, LAMBDA k : k \in DOMAIN Get(plan, "chart_data", EmptyDict))

\* generate_charts returning nothing after a failure instead of the images made
\* before it
generate_charts_DropsPartial(plan, genFail) ==
    LET req == RequestedCharts(plan)
        n == IF genFail = 0 THEN Len(req) ELSE 0
    IN  [i \in 1..n |-> [file |-> ChartFile(req[i]), data |-> plan["chart_data"][req[i]]]]

\* generate_charts: one image per requested kind, in order; the try wraps the
\* whole batch, so the first chart that raises (number genFail, 0 for none) ends
\* it and the images made before are returned
generate_charts(plan, genFail) ==
    LET req == RequestedCharts(plan)
        n == IF genFail = 0 THEN Len(req) ELSE genFail - 1
    IN  [i \in 1..n |-> [file |-> ChartFile(req[i]), data |-> plan["chart_data"][req[i]]]]

\* the slides the chart loop of generate_ppt adds: _add_chart_slide adds its
\* slide first and the picture last, so the call that raises (number insFail,
\* 0 for none) leaves a slide without picture and ends the loop
ChartSlides(images, insFail) ==
    LET n == IF insFail = 0 THEN Len(images) ELSE insFail
    IN  [i \in 1..n |-> [kind |-> "chart", image |-> images[i],
                         placed |-> (insFail = 0 \/ i < insFail)]]

\* a file name without the minute
FileName_NoStamp(t, now) == Str(_slugify(t)) \o ".pptx"

\* the name generate_ppt saves under: the topic's slug, the clock's minute
\* formatted as %Y%m%d_%H%M, and the extension
FileName(t, now) == Str(_slugify(t)) \o "_" \o strftime(now) \o ".pptx"
OutputPath(f) == "outputs/" \o f

\* generate_ppt: title slide, one slide per section, Key Takeaways, Sources,
\* chart slides; then save
generate_ppt(t, plan, genFail, insFail, now) ==
    LET sections == Get(plan, "sections", <<>>)
        conclusion_bullets == Get(plan, "conclusion_bullets", <<>>)
        srcs == Get(plan, "sources_used", <<>>)
        images == IF "chart_data" \in DOMAIN plan THEN generate_charts(plan, genFail)
                  ELSE <<>>
    IN  [slides |->
            <<[kind |-> "title", heading |-> Get(plan, "title", Str(t))]>>
            \o [i \in 1..Len(sections) |->
                    [kind |-> "bullets", heading |-> Get(sections[i], "heading", "Section")]]
            \o (IF conclusion_bullets # <<>>
                THEN <<[kind |-> "bullets", heading |-> "Key Takeaways"]>> ELSE <<>>)
            \o (IF srcs # <<>> THEN <<[kind |-> "sources", heading |-> "Sources"]>> ELSE <<>>)
            \o ChartSlides(images, insFail),
         chart_files |-> images,
         filename |-> FileName(t, now),
         path |-> OutputPath(FileName(t, now))]

\* lines 942-944: the chart planner's chart_data, when not empty, is merged
\* over the slide planner's
MergeChartData(plan, cplan) ==
    IF DOMAIN Get(cplan, "chart_data", EmptyDict) # {}
    THEN LET p == SetDefault(plan, "chart_data", EmptyDict)
         IN  [k \in DOMAIN p |->
                 IF k = "chart_data" THEN Update(p[k], cplan["chart_data"]) ELSE p[k]]
    ELSE plan

(***************************************************************************)
(* Theme application.  A colour is written "#RRGGBB", a str like any       *)
(* other; an RGBColor is the triple of its channels.                       *)
(***************************************************************************)
HexDigits == <<"0", "1", "2", "3", "4", "5", "6", "7", "8", "9",
               "A", "B", "C", "D", "E", "F">>
\* int(two characters, 16)
Int16(hi, lo) ==
    LET v(c) == (CHOOSE i \in 1..16 : HexDigits[i] = c) - 1
    IN  16 * v(hi) + v(lo)

\* hex_to_rgb: the channels of hex_str.lstrip('#')
hex_to_rgb(hex_str) ==
    LET h == LStrip(hex_str, {"#"})
    IN  IF hex_str = <<>> THEN <<0, 0, 0>>
        ELSE <<Int16(h[1], h[2]), Int16(h[3], h[4]), Int16(h[5], h[6])>>

\* luminance of is_dark_color in units of 1/10000, in exact arithmetic
Luminance(rgb) == 2126 * rgb[1] + 7152 * rgb[2] + 722 * rgb[3]
Threshold == 1280000
\* the colours of exact luminance 128 for which the double-precision sum
\* 0.2126*r + 0.7152*g + 0.0722*b is 127.99999999999999
RoundedBelowThreshold ==
    {<<12, 175, 4>>, <<15, 152, 223>>, <<145, 118, 177>>, <<159, 131, 7>>,
     <<162, 108, 226>>, <<176, 121, 56>>}

\* is_dark_color
is_dark_color(hex_color) ==
    LET rgb == hex_to_rgb(hex_color)
    IN  \/ Luminance(rgb) < Threshold
        \/ rgb \in RoundedBelowThreshold

\* choose_text_color (no caller in the repository)
choose_text_color(bg_hex) ==
    IF is_dark_color(bg_hex) THEN <<255, 255, 255>> ELSE <<20, 20, 20>>

DefaultBackground == <<"#", "1", "2", "1", "2", "1", "2">>
DefaultAccent == <<"#", "3", "8", "B", "D", "F", "8">>
DefaultRadius == 40
None == <<>>

\* _add_rounded_rect_background with the card colours exchanged
_add_rounded_rect_background_Exchanged(theme_config) ==
    IF Get(theme_config, "corner_radius", DefaultRadius) <= 0
    THEN [shape |-> FALSE, card_color |-> None]
    ELSE [shape |-> TRUE,
          card_color |-> IF is_dark_color(Get(theme_config, "background_color",
                                              DefaultBackground))
                         THEN <<0, 0, 0>> ELSE <<255, 255, 255>>]

\* _add_rounded_rect_background: no card for a radius <= 0, else a white card
\* on a dark background and a black card on a light one
_add_rounded_rect_background(theme_config) ==
    IF Get(theme_config, "corner_radius", DefaultRadius) <= 0
    THEN [shape |-> FALSE, card_color |-> None]
    ELSE [shape |-> TRUE,
          card_color |-> IF is_dark_color(Get(theme_config, "background_color",
                                              DefaultBackground))
                         THEN <<255, 255, 255>> ELSE <<0, 0, 0>>]

\* _add_bullet_slide taking the bullet colour from the background
_add_bullet_slide_TextFromBackground(theme_config) ==
    LET card == _add_rounded_rect_background(theme_config)
        bg_hex == Get(theme_config, "background_color", DefaultBackground)
    IN  [background |-> hex_to_rgb(bg_hex),
         heading_color |-> hex_to_rgb(Get(theme_config, "accent_color", DefaultAccent)),
         card |-> card.shape,
         card_color |-> card.card_color,
         text_color |-> IF is_dark_color(bg_hex)
                        THEN <<240, 240, 240>> ELSE <<30, 30, 30>>]

\* _add_bullet_slide, lines 570-591: the colours of the slide
_add_bullet_slide(theme_config) ==
    LET card == _add_rounded_rect_background(theme_config)
        bg_hex == Get(theme_config, "background_color", DefaultBackground)
    IN  [background |-> hex_to_rgb(bg_hex),
         heading_color |-> hex_to_rgb(Get(theme_config, "accent_color", DefaultAccent)),
         card |-> card.shape,
         card_color |-> card.card_color,
         text_color |-> IF card.card_color = <<255, 255, 255>>
                        THEN <<30, 30, 30>> ELSE <<240, 240, 240>>]

(***************************************************************************)
(* Chart placement.  Lengths are in thousandths of an inch (the code's are *)
(* EMU, 914400 to the inch).                                               *)
(***************************************************************************)
SlideWidth == 13333
SlideHeight == 7500
MarginWidth == 1700
MarginHeight == 2200
max_width == SlideWidth - MarginWidth
max_height == SlideHeight - MarginHeight

\* int(x * (a / b)): the product in double precision is the exact quotient
\* truncated, except that a product which is exactly an integer may come out
\* just below it
IntTimes(x, a, b) ==
    LET q == (x * a) \div b
    IN  IF (x * a) % b = 0 /\ q > 0 THEN {q, q - 1} ELSE {q}

\* lines 739-742: scale to the box width
ScaleWidthFirst(w, h) ==
    IF w > max_width
    THEN {<<w1, h1>> : w1 \in IntTimes(w, max_width, w), h1 \in IntTimes(h, max_width, w)}
    ELSE {<<w, h>>}

\* lines 745-748: scale to the box height
ScaleHeight(w, h) ==
    IF h > max_height
    THEN {<<w1, h1>> : w1 \in IntTimes(w, max_height, h), h1 \in IntTimes(h, max_height, h)}
    ELSE {<<w, h>>}

\* _add_chart_slide without the second scaling
_add_chart_slide_WidthOnly(w, h) ==
    {[width |-> p[1], height |-> p[2], left |-> (SlideWidth - p[1]) \div 2] :
        p \in ScaleWidthFirst(w, h)}

\* _add_chart_slide, lines 729-751: the sizes and position the picture of
\* native size w x h can get
_add_chart_slide(w, h) ==
    {[width |-> p[1], height |-> p[2], left |-> (SlideWidth - p[1]) \div 2] :
        p \in UNION {ScaleHeight(q[1], q[2]) : q \in ScaleWidthFirst(w, h)}}

(***************************************************************************)
(* The request and the state before the first step.                        *)
(***************************************************************************)
Topics == {<<"E", "l", "e", "c", "t", "r", "i", "c", " ",
            "V", "e", "h", "i", "c", "l", "e", "s">>}

\* the minute the request's deck is saved in
RequestMinutes == {0}

\* theme_config of the request
RequestTheme == EmptyDict

\* a local the generator has not assigned yet
Unset == [t |-> "unset"]

PipelineInit ==
    /\ mode \in {"ws", "http"}
    /\ topic \in Topics
    /\ pc = "start"
    /\ events = <<>>
    /\ delivered = 0
    /\ raisedIn = "none"
    /\ exc = ""
    /\ started = <<>>
    /\ calls = <<>>
    /\ sources = Unset
    /\ research_summary = Unset
    /\ validation = Unset
    /\ chart_plan = Unset
    /\ recommendations = Unset
    /\ slide_plan = Unset
    /\ deck = <<>>
    /\ saved = <<>>
    /\ chart_files = <<>>
    /\ chart_failure = <<0, 0>>
    /\ frames = <<>>
    /\ conn = "open"
    /\ final_result = EmptyDict
    /\ response = [kind |-> "none"]

\* no function is under unit examination
NoUnit == [fn |-> "none"]

\* no other request shares the loop
NoRuns ==
    /\ runs = <<>>
    /\ running = 0
    /\ clock = 0
    /\ outputs = EmptyDict

Init ==
    /\ PipelineInit
    /\ unit_in = NoUnit
    /\ unit_out = NoUnit
    /\ NoRuns

(***************************************************************************)
(* run_research_pipeline_stream.  One action is the code the generator     *)
(* runs from one yield to the next, which it does when its consumer asks   *)
(* for the next event.                                                     *)
(***************************************************************************)
Progress(msg) == [status |-> "progress", message |-> msg]

\* the consumer has taken every event so far and asks for the next
Resumed == conn = "open" /\ delivered = Len(events)

consumerVars == <<mode, topic, delivered, frames, conn, final_result, response>>
localVars == <<sources, research_summary, validation, chart_plan, recommendations,
               slide_plan, deck, saved, chart_files, chart_failure>>

\* the generator yields ev and will continue at next
Yield(ev, next) ==
    /\ events' = Append(events, ev)
    /\ pc' = next

\* an exception of stage leaves the generator
Escape(stage, e) ==
    /\ pc' = "raised"
    /\ raisedIn' = stage
    /\ exc' = e
    /\ UNCHANGED events

\* line 867
GenStart ==
    /\ UNCHANGED <<unitVars, runVars>>
    /\ pc = "start" /\ Resumed
    /\ Yield([status |-> "start", message |-> "Starting research on: " \o Str(topic)], "search")
    /\ UNCHANGED <<raisedIn, exc, started, calls, localVars, consumerVars>>

\* lines 868-873
GenSearch ==
    /\ UNCHANGED <<unitVars, runVars>>
    /\ pc = "search" /\ Resumed
    /\ Yield(Progress("Searching the web..."), "collect")
    /\ UNCHANGED <<raisedIn, exc, started, calls, localVars, consumerVars>>

\* lines 874-881: collect_sources and len(sources) are inside the try
GenCollect ==
    /\ UNCHANGED <<unitVars, runVars>>
    /\ pc = "collect" /\ Resumed
    /\ \E out \in SourcingOutputs :
        LET r == collect_sources(Str(topic), out)
        IN  /\ started' = Append(started, "collect_sources")
            /\ calls' = Append(calls, "collect_sources")
            /\ IF r.raised \/ ~HasLen(r.value)
               THEN LET e == IF r.raised THEN r.exc ELSE "TypeError: len"
                    IN  /\ Yield([status |-> "error", message |-> "Search failed: " \o e],
                                 "after_error")
                        /\ raisedIn' = "collect_sources"
                        /\ exc' = e
                        /\ sources' = IF r.raised THEN sources ELSE r.value
               ELSE /\ Yield(Progress("Found " \o ToString(Len(r.value.items))
                                      \o " sources."), "analyze")
                    /\ sources' = r.value
                    /\ UNCHANGED <<raisedIn, exc>>
    /\ UNCHANGED <<research_summary, validation, chart_plan, recommendations,
                   slide_plan, deck, saved, chart_files, chart_failure, consumerVars>>

\* GenAfterError without the return of line 883: the generator goes on to the
\* next stage's notification
GenAfterError_NoReturn ==
    /\ UNCHANGED <<unitVars, runVars>>
    /\ pc = "after_error" /\ Resumed
    /\ pc' = "analyze"
    /\ UNCHANGED <<events, raisedIn, exc, started, calls, localVars, consumerVars>>

\* lines 882-883: after the error event the generator returns
GenAfterError ==
    /\ UNCHANGED <<unitVars, runVars>>
    /\ pc = "after_error" /\ Resumed
    /\ pc' = "ended"
    /\ UNCHANGED <<events, raisedIn, exc, started, calls, localVars, consumerVars>>

\* lines 879-888
GenAnalyze ==
    /\ UNCHANGED <<unitVars, runVars>>
    /\ pc = "analyze" /\ Resumed
    /\ Yield(Progress("Analyzing and summarizing content..."), "summarize")
    /\ UNCHANGED <<raisedIn, exc, started, calls, localVars, consumerVars>>

\* lines 889-896
GenSummarize ==
    /\ UNCHANGED <<unitVars, runVars>>
    /\ pc = "summarize" /\ Resumed
    /\ \E out \in SummaryOutputs :
        LET r == build_research_summary(Str(topic), sources.items, out)
        IN  /\ started' = Append(started, "build_research_summary")
            /\ calls' = IF JoinRaises(sources.items) THEN calls
                        ELSE Append(calls, "build_research_summary")
            /\ IF r.raised
               THEN /\ Escape("build_research_summary", r.exc)
                    /\ UNCHANGED research_summary
               ELSE /\ Yield(Progress("Validating insights & cleaning output..."),
                             "validate")
                    /\ research_summary' = r.value
                    /\ UNCHANGED <<raisedIn, exc>>
    /\ UNCHANGED <<sources, validation, chart_plan, recommendations, slide_plan, deck,
                   saved, chart_files, chart_failure, consumerVars>>

\* lines 897-904
GenValidate ==
    /\ UNCHANGED <<unitVars, runVars>>
    /\ pc = "validate" /\ Resumed
    /\ \E out \in ValidationOutputs :
        LET r == validate_research(research_summary.d, out)
        IN  /\ started' = Append(started, "validate_research")
            /\ calls' = Append(calls, "validate_research")
            /\ IF r.raised
               THEN /\ Escape("validate_research", r.exc)
                    /\ UNCHANGED validation
               ELSE /\ Yield(Progress("Deriving chart data from research..."),
                             "plan_charts")
                    /\ validation' = r.value
                    /\ UNCHANGED <<raisedIn, exc>>
    /\ UNCHANGED <<sources, research_summary, chart_plan, recommendations, slide_plan,
                   deck, saved, chart_files, chart_failure, consumerVars>>

\* {**research_summary, "validated": validation}
WithValidated == ("validated" :> validation) @@ research_summary.d

\* lines 905-915
GenPlanCharts ==
    /\ UNCHANGED <<unitVars, runVars>>
    /\ pc = "plan_charts" /\ Resumed
    /\ \E out \in ChartPlanOutputs :
        LET r == plan_charts_from_research(WithValidated, out)
        IN  /\ started' = Append(started, "plan_charts_from_research")
            /\ calls' = Append(calls, "plan_charts_from_research")
            /\ IF r.raised
               THEN /\ Escape("plan_charts_from_research", r.exc)
                    /\ UNCHANGED chart_plan
               ELSE /\ Yield(Progress("Generating executive recommendations..."),
                             "recommend")
                    /\ chart_plan' = r.value
                    /\ UNCHANGED <<raisedIn, exc>>
    /\ UNCHANGED <<sources, research_summary, validation, recommendations, slide_plan,
                   deck, saved, chart_files, chart_failure, consumerVars>>

\* lines 916-936
GenRecommend ==
    /\ UNCHANGED <<unitVars, runVars>>
    /\ pc = "recommend" /\ Resumed
    /\ \E out \in RecommendationOutputs :
        LET r == generate_recommendations(WithValidated, out)
        IN  /\ started' = Append(started, "generate_recommendations")
            /\ calls' = Append(calls, "generate_recommendations")
            /\ IF r.raised
               THEN /\ Escape("generate_recommendations", r.exc)
                    /\ UNCHANGED recommendations
               ELSE /\ Yield(Progress("Generating slide plan..."), "plan_slides")
                    /\ recommendations' = r.value
                    /\ UNCHANGED <<raisedIn, exc>>
    /\ UNCHANGED <<sources, research_summary, validation, chart_plan, slide_plan, deck,
                   saved, chart_files, chart_failure, consumerVars>>

\* lines 926-931
EnrichedResearch ==
    ("validated" :> validation) @@ ("chart_plan" :> chart_plan)
    @@ ("recommendations" :> recommendations) @@ research_summary.d

\* lines 937-960: slide planning, the merge of the chart data, rendering and the
\* DONE event run without a yield in between
GenRender ==
    /\ UNCHANGED <<unitVars, runVars>>
    /\ pc = "plan_slides" /\ Resumed
    /\ \E out \in SlidePlanOutputs :
        LET r == generate_slide_plan(EnrichedResearch, RequestTheme, out)
        IN  /\ calls' = Append(calls, "generate_slide_plan")
            /\ IF r.raised
               THEN /\ started' = Append(started, "generate_slide_plan")
                    /\ Escape("generate_slide_plan", r.exc)
                    /\ UNCHANGED <<slide_plan, deck, saved, chart_files, chart_failure>>
               ELSE LET plan == MergeChartData(r.value.d, chart_plan.d)
                    IN  \E genFail \in 0..Len(RequestedCharts(plan)) :
                        \E insFail \in 0..Len(generate_charts(plan, genFail)) :
                        \E now \in RequestMinutes :
                            LET out_ppt == generate_ppt(topic, plan, genFail, insFail, now)
                            IN  /\ started' = started \o <<"generate_slide_plan",
                                                           "generate_ppt">>
                                /\ slide_plan' = JDict(plan)
                                /\ deck' = out_ppt.slides
                                /\ saved' = <<out_ppt.filename, out_ppt.path>>
                                /\ chart_files' = out_ppt.chart_files
                                /\ chart_failure' = <<genFail, insFail>>
                                /\ Yield([status |-> "DONE",
                                          message |-> "Pipeline completed",
                                          ppt_filename |-> out_ppt.filename,
                                          ppt_path |-> out_ppt.path,
                                          topic |-> Str(topic)], "after_done")
                                /\ UNCHANGED <<raisedIn, exc>>
    /\ UNCHANGED <<sources, research_summary, validation, chart_plan, recommendations,
                   consumerVars>>

\* line 960: after the DONE event the generator's body ends
GenAfterDone ==
    /\ UNCHANGED <<unitVars, runVars>>
    /\ pc = "after_done" /\ Resumed
    /\ pc' = "ended"
    /\ UNCHANGED <<events, raisedIn, exc, started, calls, localVars, consumerVars>>

(***************************************************************************)
(* The consumers of the event sequence.                                    *)
(***************************************************************************)
genVars == <<pc, events, raisedIn, exc, started, calls, localVars>>

\* progress.py line 19: the next event is sent as a frame
WsSend ==
    /\ UNCHANGED <<unitVars, runVars>>
    /\ mode = "ws" /\ conn = "open" /\ delivered < Len(events)
    /\ frames' = Append(frames, events[delivered + 1])
    /\ delivered' = delivered + 1
    /\ UNCHANGED <<genVars, mode, topic, conn, final_result, response>>

\* progress.py lines 21-22, 27-28: the client is gone when a frame is to be sent
WsDisconnect ==
    /\ UNCHANGED <<unitVars, runVars>>
    /\ mode = "ws" /\ conn = "open" /\ delivered < Len(events)
    /\ conn' = "disconnected"
    /\ UNCHANGED <<genVars, mode, topic, delivered, frames, final_result, response>>

\* progress.py lines 24-28: an exception of the generator is sent as {"error": ...}
WsError ==
    /\ UNCHANGED <<unitVars, runVars>>
    /\ mode = "ws" /\ conn = "open" /\ pc = "raised"
    /\ frames' = Append(frames, [error |-> exc])
    /\ conn' = "closed"
    /\ UNCHANGED <<genVars, mode, topic, delivered, final_result, response>>

\* progress.py lines 27-28: the generator is exhausted, the socket is closed
WsClose ==
    /\ UNCHANGED <<unitVars, runVars>>
    /\ mode = "ws" /\ conn = "open" /\ pc = "ended" /\ delivered = Len(events)
    /\ conn' = "closed"
    /\ UNCHANGED <<genVars, mode, topic, delivered, frames, final_result, response>>

\* pipeline.py lines 974-976: run_research_pipeline keeps the DONE event only
WrapperTake ==
    /\ UNCHANGED <<unitVars, runVars>>
    /\ mode = "http" /\ conn = "open" /\ delivered < Len(events)
    /\ final_result' = IF events[delivered + 1].status = "DONE"
                       THEN events[delivered + 1] ELSE final_result
    /\ delivered' = delivered + 1
    /\ UNCHANGED <<genVars, mode, topic, frames, conn, response>>

\* generate.py lines 31-41 on the dict run_research_pipeline returned
generate_report(result) ==
    IF "ppt_filename" \in DOMAIN result
    THEN [kind |-> "response", status |-> 200,
          topic |-> Get(result, "topic", "None"),
          message |-> "Report generated successfully.",
          ppt_filename |-> result["ppt_filename"]]
    ELSE [kind |-> "unhandled", status |-> 500, message |-> "KeyError: 'ppt_filename'"]

\* pipeline.py line 977 and generate.py lines 22, 31-41: the wrapper returns
\* final_result and the route builds its response from it
HttpReturn ==
    /\ UNCHANGED <<unitVars, runVars>>
    /\ mode = "http" /\ conn = "open" /\ pc = "ended" /\ delivered = Len(events)
    /\ response' = generate_report(final_result)
    /\ conn' = "returned"
    /\ UNCHANGED <<genVars, mode, topic, delivered, frames, final_result>>

\* generate.py lines 24-29: an exception of the pipeline becomes HTTP 500 with
\* the exception text as detail
HttpFail ==
    /\ UNCHANGED <<unitVars, runVars>>
    /\ mode = "http" /\ conn = "open" /\ pc = "raised"
    /\ response' = [kind |-> "http_error", status |-> 500, message |-> exc]
    /\ conn' = "returned"
    /\ UNCHANGED <<genVars, mode, topic, delivered, frames, final_result>>

Next ==
    \/ GenStart
    \/ GenSearch
    \/ GenCollect
    \/ GenAfterError
    \/ GenAnalyze
    \/ GenSummarize
    \/ GenValidate
    \/ GenPlanCharts
    \/ GenRecommend
    \/ GenRender
    \/ GenAfterDone
    \/ WsSend
    \/ WsDisconnect
    \/ WsError
    \/ WsClose
    \/ WrapperTake
    \/ HttpReturn
    \/ HttpFail

Spec == Init /\ [][Next]_vars

(***************************************************************************)
(* The renderer's functions on their own: the arguments are drawn from     *)
(* bounded sets, one action per function applies it.                       *)
(***************************************************************************)
\* _get_theme_colors of the chart renderer
_get_theme_colors(theme_config) ==
    [primary |-> Get(theme_config, "brand_primary", <<"#", "3", "8", "B", "D", "F", "8">>),
     secondary |-> Get(theme_config, "brand_secondary", <<"#", "8", "1", "8", "C", "F", "8">>),
     accent |-> Get(theme_config, "accent_color", <<"#", "F", "4", "7", "2", "B", "6">>),
     bg |-> Get(theme_config, "background_color", <<"#", "1", "2", "1", "2", "1", "2">>),
     text |-> Get(theme_config, "text_color", <<"#", "F", "0", "F", "0", "F", "0">>)]

\* the theme values the slide builders read (lines 487, 502, 579)
DocumentTheme(theme_config) ==
    [accent_color |-> Get(theme_config, "accent_color", DefaultAccent),
     background_color |-> Get(theme_config, "background_color", DefaultBackground),
     corner_radius |-> Get(theme_config, "corner_radius", DefaultRadius)]

\* the theme_config the endpoint hands to the pipeline: /ws/progress passes
\* none (progress.py line 18), POST /generate the request's (generate.py line 24)
PassedTheme(m, request_theme) == IF m = "ws" THEN None ELSE request_theme

\* generate_ppt lines 804-805: an empty or missing theme_config is replaced
\* by the slide plan's
ppt_theme_config(theme_config, plan) ==
    IF theme_config = EmptyDict THEN Get(plan, "theme_config", EmptyDict)
    ELSE theme_config

\* lines 939-949 and 838: the theme both renderers get for a request
render_theme(m, request_theme, out) ==
    LET passed == PassedTheme(m, request_theme)
        plan == generate_slide_plan([topic |-> "T"], passed, out).value.d
        theme_config == ppt_theme_config(passed, plan)
    IN  [theme_config |-> theme_config,
         document |-> DocumentTheme(theme_config),
         chart |-> _get_theme_colors(theme_config)]

\* most multiples of an inch a chart image measures
MaxImageInches == 20

\* topics as the request model admits them: any str
UnitTopics == SeqsUpTo(Alphabet, MaxTopicLen) \cup Topics

Hex(a, b, c, d, e, f) == <<"#", a, b, c, d, e, f>>
BackgroundColors ==
    {Hex("0", "0", "0", "0", "0", "0"), Hex("F", "F", "F", "F", "F", "F"),
     Hex("1", "2", "1", "2", "1", "2"), Hex("8", "0", "8", "0", "8", "0"),
     Hex("7", "F", "7", "F", "7", "F"), Hex("0", "C", "A", "F", "0", "4"),
     Hex("3", "8", "B", "D", "F", "8")}
AccentColors == {Hex("F", "4", "7", "2", "B", "6")}
Radii == {-5, 0, 1, 40}

\* the dicts with key k or without it
OptKey(k, values) == {EmptyDict} \cup {(k :> v) : v \in values}
UnitThemes ==
    {a @@ b @@ c : a \in OptKey("background_color", BackgroundColors),
                   b \in OptKey("corner_radius", Radii),
                   c \in OptKey("accent_color", AccentColors)}

\* native sizes of a chart image
ImageSizes ==
    {1000 * k : k \in 1..MaxImageInches}
    \cup {1, max_width, max_width + 1, max_height, max_height + 1}

\* theme_config of a request, and what the slide planner's call gives where
\* its answer does not end the run
RequestThemes ==
    {a @@ b : a \in OptKey("accent_color", {Hex("F", "F", "0", "0", "0", "0")}),
              b \in OptKey("background_color", {Hex("F", "F", "F", "F", "F", "F")})}
LlmTheme ==
    [accent_color |-> Hex("0", "0", "F", "F", "0", "0"),
     background_color |-> Hex("0", "0", "0", "0", "F", "F")]
ThemePlanOutputs ==
    {LlmText, LlmJson(JDict(EmptyDict)), LlmJson(JDict([theme_config |-> LlmTheme]))}

UnitInputs ==
    {[fn |-> "render_theme", mode |-> m, theme_config |-> th, out |-> o] :
        m \in {"ws", "http"}, th \in RequestThemes, o \in ThemePlanOutputs}
    \cup
    {[fn |-> "_slugify", text |-> t] : t \in UnitTopics}
    \cup {[fn |-> "filename", topic |-> t, now |-> n] : t \in UnitTopics, n \in Minutes}
    \cup {[fn |-> "_add_bullet_slide", theme_config |-> th] : th \in UnitThemes}
    \cup {[fn |-> "choose_text_color", bg_hex |-> c] : c \in BackgroundColors}
    \cup {[fn |-> "_add_chart_slide", width |-> w, height |-> h] :
            w \in ImageSizes, h \in ImageSizes}

InitUnits ==
    /\ PipelineInit
    /\ mode = "http"
    /\ unit_in \in UnitInputs
    /\ unit_out = NoUnit
    /\ NoRuns

UnitCall(fn) ==
    /\ unit_in.fn = fn
    /\ unit_out = NoUnit
    /\ UNCHANGED <<unit_in, genVars, consumerVars, runVars>>

Apply_slugify ==
    /\ UnitCall("_slugify")
    /\ unit_out' = [fn |-> "_slugify", slug |-> _slugify(unit_in.text),
                    again |-> _slugify(_slugify(unit_in.text))]

\* pipeline.py lines 849-851
ApplyFileName ==
    /\ UnitCall("filename")
    /\ unit_out' = [fn |-> "filename", filename |-> FileName(unit_in.topic, unit_in.now)]

Apply_add_bullet_slide ==
    /\ UnitCall("_add_bullet_slide")
    /\ unit_out' = [fn |-> "_add_bullet_slide"] @@ _add_bullet_slide(unit_in.theme_config)

Apply_choose_text_color ==
    /\ UnitCall("choose_text_color")
    /\ unit_out' = [fn |-> "choose_text_color", color |-> choose_text_color(unit_in.bg_hex)]

Apply_add_chart_slide ==
    /\ UnitCall("_add_chart_slide")
    /\ \E pic \in _add_chart_slide(unit_in.width, unit_in.height) :
        unit_out' = [fn |-> "_add_chart_slide"] @@ pic

Apply_render_theme ==
    /\ UnitCall("render_theme")
    /\ unit_out' = [fn |-> "render_theme"]
                    @@ render_theme(unit_in.mode, unit_in.theme_config, unit_in.out)

NextUnits ==
    \/ Apply_render_theme
    \/ Apply_slugify
    \/ ApplyFileName
    \/ Apply_add_bullet_slide
    \/ Apply_choose_text_color
    \/ Apply_add_chart_slide

SpecUnits == InitUnits /\ [][NextUnits]_vars

(***************************************************************************)
(* Properties.                                                             *)
(***************************************************************************)
IsTerminal(e) == "status" \in DOMAIN e /\ e.status \in {"DONE", "error"}
TerminalCount(seq) == Cardinality({i \in 1..Len(seq) : IsTerminal(seq[i])})

\* the generator has produced its whole event sequence
GenFinished == pc \in {"ended", "raised"}

\* the run got past source collection
SourcingSucceeded == sources.t = "list" /\ raisedIn # "collect_sources"

\* C1: the event sequence of a run holds exactly one terminal event (DONE or
\* error), which is its last event, whatever the generative client and the
\* renderers do.
C1_ExactlyOneTerminalEvent ==
    /\ \A i \in 1..Len(events) : IsTerminal(events[i]) => i = Len(events)
    /\ GenFinished => /\ TerminalCount(events) = 1
                      /\ IsTerminal(events[Len(events)])

\* C2: when source collection fails, the event sequence ends at once in exactly
\* one error event: no progress or DONE event follows it, no later stage is
\* started and nothing is rendered.
C2_SourcingFailureEndsRun ==
    raisedIn = "collect_sources" =>
        /\ pc \in {"after_error", "ended"}
        /\ events # <<>>
        /\ events[Len(events)].status = "error"
        /\ \A i \in 1..(Len(events) - 1) : events[i].status \notin {"error", "DONE"}
        /\ started = <<"collect_sources">>
        /\ calls = <<"collect_sources">>
        /\ slide_plan = Unset /\ deck = <<>> /\ saved = <<>>

\* a run whose source collection failed has ended and its consumer is done
C2_Witness ==
    /\ raisedIn = "collect_sources"
    /\ pc = "ended"
    /\ conn \in {"closed", "returned"}
    /\ delivered = Len(events)

ValidationFields ==
    {"validated_summary", "validated_key_points", "caveats", "confidence",
     "things_to_double_check"}

\* C3: once source collection has succeeded no later stage fails the run: every
\* agent returns a fully-defaulted result instead of raising and the run ends
\* in DONE.
C3_LaterStagesNeverFail ==
    /\ raisedIn \in {"none", "collect_sources"}
    /\ validation # Unset =>
           IsDict(validation) /\ ValidationFields \subseteq DOMAIN validation.d
    /\ (SourcingSucceeded /\ GenFinished) =>
           /\ pc = "ended"
           /\ events[Len(events)].status = "DONE"

\* C4: a slide plan of fewer than 5 sections reaches the renderer with the fixed
\* 9-entry fallback outline as its sections, so the deck has a title slide and
\* at least 9 content slides.
C4_FallbackOutlineReachesRenderer ==
    slide_plan # Unset =>
        LET secs == slide_plan.d["sections"]
        IN  \/ Len(secs) >= MinSections
            \/ /\ secs = FallbackSections
               /\ Len(deck) >= 1 + Len(FallbackHeadings)

\* C5: the chart_data of the slide plan handed to the renderer has exactly the
\* five known chart kinds as its keys.
C5_RenderedPlanHasFiveChartKeys ==
    slide_plan # Unset => DOMAIN slide_plan.d["chart_data"] = ChartKeys

\* C6: the chart_data of the ChartPlan plan_charts_from_research returns has
\* exactly the five known chart kinds as its keys, for every generative output.
C6_ChartPlanHasFiveChartKeys ==
    chart_plan # Unset => DOMAIN chart_plan.d["chart_data"] = ChartKeys

FrameStatuses == {"start", "progress", "error", "DONE"}

\* the fields of a well-formed terminal frame
WellFormedTerminal(f) ==
    /\ "status" \in DOMAIN f
    /\ \/ f.status = "DONE" /\ {"ppt_filename", "ppt_path", "topic"} \subseteq DOMAIN f
       \/ f.status = "error" /\ "message" \in DOMAIN f

\* C7: the frames of a streaming session are the pipeline's events in order:
\* every frame carries a status of {start, progress, error, DONE}, the first
\* one is "start", and a session served to its end has exactly one terminal
\* frame, its last, {DONE, ppt_filename, ppt_path, topic} or {error, message}.
C7_FramesEndInOneTerminalFrame ==
    /\ \A i \in 1..Len(frames) :
           "status" \in DOMAIN frames[i] /\ frames[i].status \in FrameStatuses
    /\ frames # <<>> => frames[1].status = "start"
    /\ Len(frames) <= Len(events)
    /\ \A i \in 1..Len(frames) : frames[i] = events[i]
    /\ (mode = "ws" /\ conn = "closed") =>
           /\ TerminalCount(frames) = 1
           /\ WellFormedTerminal(frames[Len(frames)])

\* C8: run_research_pipeline returns the terminal event of the run it drained:
\* the DONE event on success, the error event when source collection failed.
C8_WrapperReturnsTerminalEvent ==
    (mode = "http" /\ conn = "returned" /\ pc = "ended") =>
        LET last == events[Len(events)]
        IN  /\ IsTerminal(last)
            /\ DOMAIN final_result = DOMAIN last
            /\ \A k \in DOMAIN last : final_result[k] = last[k]

\* C9: a non-streaming request whose source collection fails is answered by a
\* failure carrying the sourcing error's message, never by an unrelated
\* unhandled fault (a missing ppt_filename) and never by a success.
C9_SourcingFailureIsReported ==
    (mode = "http" /\ conn = "returned" /\ raisedIn = "collect_sources") =>
        /\ response.kind = "http_error"
        /\ response.message = "Search failed: " \o exc

\* the charts of a deck whose picture was placed
PlacedCharts(slides) ==
    {i \in 1..Len(slides) : slides[i].kind = "chart" /\ slides[i].placed}

\* C10: a saved deck has 1 + N + c + s + K slides: N sections, c = 1 iff there
\* are conclusion bullets, s = 1 iff there are sources, K placed chart images; a
\* chart whose rendering or insertion fails adds no slide.
C10_DeckSlideCount ==
    saved # <<>> =>
        LET plan == slide_plan.d
            N == Len(Get(plan, "sections", <<>>))
            c == IF Get(plan, "conclusion_bullets", <<>>) # <<>> THEN 1 ELSE 0
            s == IF Get(plan, "sources_used", <<>>) # <<>> THEN 1 ELSE 0
            K == Cardinality(PlacedCharts(deck))
        IN  Len(deck) = 1 + N + c + s + K

\* the sources slides of a deck
SourcesSlides(slides) == {i \in 1..Len(slides) : slides[i].kind = "sources"}

\* C11: a run whose source collection returned sources renders exactly one
\* sources slide, after the Key Takeaways slide and before the chart slides; a
\* run without sources renders none.
C11_SourcesSlideFollowsSources ==
    saved # <<>> =>
        IF sources.items # <<>>
        THEN /\ Cardinality(SourcesSlides(deck)) = 1
             /\ \A i \in SourcesSlides(deck) : \A j \in 1..Len(deck) :
                    /\ deck[j].kind = "bullets" => j < i
                    /\ deck[j].kind = "chart" => i < j
        ELSE SourcesSlides(deck) = {}

\* C12: without a rendering failure generate_charts returns one image per kind
\* of chart_data that is among the five recognized kinds and none for any other
\* key: five images for a chart_data holding the five known kinds.
C12_OneImagePerRecognizedKind ==
    (saved # <<>> /\ chart_failure[1] = 0) =>
        LET cd == slide_plan.d["chart_data"]
        IN  /\ Len(chart_files) = Cardinality(DOMAIN cd \cap ChartKeys)
            /\ ChartKeys \subseteq DOMAIN cd => Len(chart_files) = Cardinality(ChartKeys)

\* C13: a failure while generating a chart image or inserting a chart slide
\* never aborts document creation: generate_charts returns the images made
\* before the failure, the deck is saved and the run ends in DONE with the
\* saved file's name and path.
C13_ChartFailureNeverAborts ==
    chart_failure # <<0, 0>> =>
        LET req == RequestedCharts(slide_plan.d)
            made == IF chart_failure[1] = 0 THEN Len(req) ELSE chart_failure[1] - 1
        IN  /\ Len(chart_files) = made
            /\ \A i \in 1..made : chart_files[i].file = ChartFile(req[i])
            /\ raisedIn = "none"
            /\ pc \in {"after_done", "ended"}
            /\ deck # <<>> /\ saved # <<>>
            /\ events[Len(events)].status = "DONE"
            /\ events[Len(events)].ppt_filename = saved[1]
            /\ events[Len(events)].ppt_path = saved[2]

\* the second chart failed to generate and the first failed to insert, and the
\* run has ended
C13_Witness ==
    /\ chart_failure = <<2, 1>>
    /\ Len(chart_files) = 1
    /\ pc = "ended"
    /\ conn \in {"closed", "returned"}

\* C18: whenever the list of sources is not empty, the ResearchSummary returned
\* by build_research_summary has a non-empty sources_used.
C18_SourcesUsedNonEmpty ==
    (research_summary # Unset /\ sources.items # <<>>) =>
        research_summary.d["sources_used"] # <<>>

(***************************************************************************)
(* Several requests on the server's one event loop.  A request's task runs *)
(* its consumer and, inside it, the generator; the task keeps the loop's   *)
(* thread until it awaits something that suspends.  The generator's body   *)
(* is the sequence of its yields, its `await asyncio.sleep(0)` and its     *)
(* stage calls, which are plain (synchronous) calls.                       *)
(***************************************************************************)
Runs == {1, 2}
RunTopics == {<<"a">>, <<"A">>, <<"1">>}

StageOrder == <<"collect_sources", "build_research_summary", "validate_research",
                "plan_charts_from_research", "generate_recommendations",
                "generate_slide_plan", "generate_ppt">>
Stages == {StageOrder[i] : i \in DOMAIN StageOrder}

\* run_research_pipeline_stream, lines 867-960
Body == <<"yield", "sleep", "yield", "sleep", "collect_sources", "yield", "sleep",
          "yield", "sleep", "build_research_summary",
          "yield", "sleep", "validate_research",
          "yield", "sleep", "plan_charts_from_research",
          "yield", "sleep", "generate_recommendations",
          "yield", "sleep", "generate_slide_plan", "generate_ppt", "yield_done">>
\* lines 880-883: the except branch of the sourcing stage
SearchFailed == <<"yield", "sleep">>

Code(run) == IF run.path = "main" THEN Body ELSE SearchFailed
\* the step a generator is at
At(run) == IF run.ip <= Len(Code(run)) THEN Code(run)[run.ip] ELSE "return"

NewRun(t) ==
    [topic |-> t, path |-> "main", ip |-> 1, phase |-> "ready", status |-> "active",
     begun |-> <<>>, ended |-> 0, saved |-> "", minute |-> 0, done |-> FALSE,
     chart_step |-> "none", embedded |-> EmptyDict]

\* the chart images a run's generate_charts writes: those of the chart
\* planner's default chart_data, under the names fixed per kind
RunChartFiles ==
    LET req == RequestedCharts([chart_data |-> DefaultChartPlanData])
    IN  {ChartFile(req[i]) : i \in DOMAIN req}

InitRuns ==
    /\ PipelineInit
    /\ mode = "http"
    /\ unit_in = NoUnit
    /\ unit_out = NoUnit
    /\ runs \in {[r \in Runs |-> NewRun(t[r])] : t \in [Runs -> RunTopics]}
    /\ running = 0
    /\ clock = 0
    /\ outputs = EmptyDict

\* what an action on the runs leaves alone
RunFrame == UNCHANGED <<genVars, consumerVars, unitVars>>

\* the loop gives its thread to a task that can go on
RunSchedule(r) ==
    /\ running = 0
    /\ runs[r].status = "active"
    /\ running' = r
    /\ UNCHANGED <<runs, clock, outputs>>
    /\ RunFrame

\* yield: the consumer takes the event in the same task; its send may suspend
\* (progress.py line 19), run_research_pipeline's loop body does not
RunYield(r) ==
    /\ running = r
    /\ At(runs[r]) \in {"yield", "yield_done"}
    /\ \E suspends \in BOOLEAN :
        /\ runs' = [runs EXCEPT ![r].ip = @ + 1,
                                ![r].done = @ \/ At(runs[r]) = "yield_done"]
        /\ running' = IF suspends THEN 0 ELSE r
    /\ UNCHANGED <<clock, outputs>>
    /\ RunFrame

\* await asyncio.sleep(0): the task gives the thread back to the loop
RunSleep(r) ==
    /\ running = r
    /\ At(runs[r]) = "sleep"
    /\ runs' = [runs EXCEPT ![r].ip = @ + 1]
    /\ running' = 0
    /\ UNCHANGED <<clock, outputs>>
    /\ RunFrame

\* a stage that awaits its work, so that the task gives up the thread
RunStageBegin_Awaits(r) ==
    /\ running = r
    /\ At(runs[r]) \in Stages
    /\ runs[r].phase = "ready"
    /\ runs' = [runs EXCEPT ![r].phase = "executing",
                            ![r].begun = Append(@, At(runs[r]))]
    /\ running' = 0
    /\ UNCHANGED <<clock, outputs>>
    /\ RunFrame

\* a stage function is called: a plain call, the task keeps the thread
RunStageBegin(r) ==
    /\ running = r
    /\ At(runs[r]) \in Stages
    /\ runs[r].phase = "ready"
    /\ runs' = [runs EXCEPT ![r].phase = "executing",
                            ![r].begun = Append(@, At(runs[r]))]
    /\ running' = r
    /\ UNCHANGED <<clock, outputs>>
    /\ RunFrame

\* generate_charts inside generate_ppt, followed by an await
RunWriteCharts_Awaits(r) ==
    /\ running = r
    /\ runs[r].phase = "executing"
    /\ At(runs[r]) = "generate_ppt"
    /\ runs[r].chart_step = "none"
    /\ outputs' = [f \in RunChartFiles |-> r] @@ outputs
    /\ runs' = [runs EXCEPT ![r].chart_step = "written"]
    /\ running' = 0
    /\ UNCHANGED clock
    /\ RunFrame

\* generate_charts inside generate_ppt (pipeline.py line 838): _save_chart
\* writes each image under its kind's name; a plain call
RunWriteCharts(r) ==
    /\ running = r
    /\ runs[r].phase = "executing"
    /\ At(runs[r]) = "generate_ppt"
    /\ runs[r].chart_step = "none"
    /\ outputs' = [f \in RunChartFiles |-> r] @@ outputs
    /\ runs' = [runs EXCEPT ![r].chart_step = "written"]
    /\ running' = r
    /\ UNCHANGED clock
    /\ RunFrame

\* the stage function returns or raises; generate_ppt has embedded the chart
\* images as the files are then (lines 840-843) and has saved the deck under
\* the name of the clock's minute (lines 849-856)
RunStageEnd(r) ==
    /\ running = r
    /\ runs[r].phase = "executing"
    /\ \E raises \in BOOLEAN :
        LET stage == At(runs[r])
            images == [f \in RunChartFiles |-> outputs[f]]
            name == FileName(runs[r].topic, clock)
        IN  IF raises
            THEN /\ runs' = IF stage = "collect_sources"
                            THEN [runs EXCEPT ![r].phase = "ready", ![r].ended = @ + 1,
                                              ![r].path = "error", ![r].ip = 1]
                            ELSE [runs EXCEPT ![r].phase = "ready", ![r].ended = @ + 1,
                                              ![r].status = "raised"]
                 /\ running' = IF stage = "collect_sources" THEN r ELSE 0
                 /\ UNCHANGED outputs
            ELSE /\ stage = "generate_ppt" => runs[r].chart_step = "written"
                 /\ runs' = IF stage = "generate_ppt"
                            THEN [runs EXCEPT ![r].phase = "ready", ![r].ended = @ + 1,
                                              ![r].ip = @ + 1, ![r].saved = name,
                                              ![r].minute = clock,
                                              ![r].embedded = images]
                            ELSE [runs EXCEPT ![r].phase = "ready", ![r].ended = @ + 1,
                                              ![r].ip = @ + 1]
                 /\ running' = r
                 /\ outputs' = IF stage = "generate_ppt"
                               THEN (name :> r) @@ outputs ELSE outputs
    /\ UNCHANGED clock
    /\ RunFrame

\* the generator's body ends and with it the consumer's loop and the task
RunReturn(r) ==
    /\ running = r
    /\ runs[r].status = "active"
    /\ At(runs[r]) = "return"
    /\ runs' = [runs EXCEPT ![r].status = "returned"]
    /\ running' = 0
    /\ UNCHANGED <<clock, outputs>>
    /\ RunFrame

\* a minute passes
Tick ==
    /\ clock < MaxMinute
    /\ clock' = clock + 1
    /\ UNCHANGED <<runs, running, outputs>>
    /\ RunFrame

NextRuns ==
    \/ \E r \in Runs : RunSchedule(r)
    \/ \E r \in Runs : RunYield(r)
    \/ \E r \in Runs : RunSleep(r)
    \/ \E r \in Runs : RunStageBegin(r)
    \/ \E r \in Runs : RunWriteCharts(r)
    \/ \E r \in Runs : RunStageEnd(r)
    \/ \E r \in Runs : RunReturn(r)
    \/ Tick

SpecRuns == InitRuns /\ [][NextRuns]_vars

White == <<255, 255, 255>>
Black == <<0, 0, 0>>
DarkText == <<30, 30, 30>>
LightText == <<240, 240, 240>>

\* C14: on a bullet slide the card panel is white when the background is dark
\* (0.2126*R + 0.7152*G + 0.0722*B < 128 as the double-precision sum decides it)
\* and black otherwise, it is omitted when corner_radius is 0, and the body text
\* is dark on a white panel and light on a black one, whatever the background.
C14_PanelAndTextContrast ==
    unit_out.fn = "_add_bullet_slide" =>
        LET th == unit_in.theme_config
            radius == Get(th, "corner_radius", 40)
            rgb == hex_to_rgb(Get(th, "background_color", Hex("1", "2", "1", "2", "1", "2")))
            dark == 2126 * rgb[1] + 7152 * rgb[2] + 722 * rgb[3] < 1280000
                    \/ rgb \in RoundedBelowThreshold
        IN  /\ radius = 0 => ~unit_out.card
            /\ radius > 0 => /\ unit_out.card
                             /\ unit_out.card_color = IF dark THEN White ELSE Black
            /\ unit_out.card_color = White => unit_out.text_color = DarkText
            /\ unit_out.card_color = Black => unit_out.text_color = LightText
            /\ \A th2 \in UnitThemes :
                   _add_bullet_slide(th2).card_color = unit_out.card_color
                       => _add_bullet_slide(th2).text_color = unit_out.text_color

\* a dark background at the luminance threshold got a white panel and dark text
C14_Witness ==
    /\ unit_out.fn = "_add_bullet_slide"
    /\ unit_out.background = <<12, 175, 4>>
    /\ unit_out.card /\ unit_out.card_color = White
    /\ unit_out.text_color = DarkText

C16_ChartFitsBox ==
    unit_out.fn = "_add_chart_slide" =>
        LET w == unit_in.width
            h == unit_in.height
            boxW == 13333 - 1700
            boxH == 7500 - 2200
            \* the smaller fit ratio as a fraction num / den
            num == IF w <= boxW /\ h <= boxH THEN 1
                   ELSE IF boxW * h <= boxH * w THEN boxW ELSE boxH
            den == IF w <= boxW /\ h <= boxH THEN 1
                   ELSE IF boxW * h <= boxH * w THEN w ELSE h
            Near(x, y) == x - y <= 2 * den /\ y - x <= 2 * den
        IN  /\ unit_out.width <= boxW /\ unit_out.height <= boxH
            /\ unit_out.width <= w /\ unit_out.height <= h
            /\ Near(unit_out.width * den, w * num)
            /\ Near(unit_out.height * den, h * num)
            /\ 13333 - (2 * unit_out.left + unit_out.width) \in {0, 1}

\* an image too wide and, after the first scaling, still too high was scaled twice
C16_Witness ==
    /\ unit_out.fn = "_add_chart_slide"
    /\ unit_in.width > max_width
    /\ unit_in.height * max_width > max_height * unit_in.width
    /\ unit_out.height \in {max_height, max_height - 1}
    /\ unit_out.width < max_width

\* the properties of a slug
IsSlug(cs) ==
    /\ cs # <<>>
    /\ \A i \in DOMAIN cs : cs[i] \in LowerLetters \cup Digits \cup {"-"}
    /\ \A i \in 1..Len(cs) - 1 : ~(cs[i] = "-" /\ cs[i + 1] = "-")
    /\ cs[1] # "-" /\ cs[Len(cs)] # "-"

\* C17 as stated: the file name is slug(topic)_yyyyMMdd_HHmm.
C17_FileNameIsSlugAndStamp ==
    unit_out.fn = "filename" =>
        unit_out.filename = Str(_slugify(unit_in.topic)) \o "_" \o strftime(unit_in.now)

\* C17 amended: the file name generate_ppt returns is not empty and is
\* slug(topic)_yyyyMMdd_HHmm.pptx; slug(topic) is never empty ("report" when the
\* topic has no letter or digit), has only lowercase letters, digits and single
\* hyphens, neither starts nor ends with a hyphen; slugging is idempotent, and
\* "Electric Vehicles" gives "electric-vehicles".
C17_SlugAndFileName ==
    /\ unit_out.fn = "_slugify" =>
        /\ IsSlug(unit_out.slug)
        /\ (\A i \in DOMAIN unit_in.text : unit_in.text[i] \in {" ", "-", "!"})
               => Str(unit_out.slug) = "report"
        /\ unit_out.again = unit_out.slug
        /\ unit_in.text \in Topics => Str(unit_out.slug) = "electric-vehicles"
    /\ unit_out.fn = "filename" =>
        /\ unit_out.filename # ""
        /\ IsSlug(_slugify(unit_in.topic))
        /\ unit_out.filename =
               Str(_slugify(unit_in.topic)) \o "_20250101_12" \o
               (IF unit_in.now < 10 THEN "0" ELSE "") \o ToString(unit_in.now) \o ".pptx"

\* the file name of the "Electric Vehicles" deck saved at 12:01
C17_Witness ==
    /\ unit_out.fn = "filename"
    /\ unit_in.topic \in Topics
    /\ unit_out.filename = "electric-vehicles_20250101_1201.pptx"

\* the runs whose DONE event has been yielded
Reported == {r \in DOMAIN runs : runs[r].done}

\* C19 as stated: once a run has written its deck file and reported it in a
\* DONE event, no later or concurrent run overwrites that file, for any pair of
\* topics and times.
C19_ReportedFileIsKept ==
    \A r \in Reported : outputs[runs[r].saved] = r

\* C19 amended: a deck file is never removed, and the file a run has written is
\* overwritten only by a run whose topic has the same slug and whose deck is
\* saved in the same minute of the clock.
C19_OverwrittenOnlyOnSameSlugAndMinute ==
    \A r \in DOMAIN runs : runs[r].saved # "" =>
        /\ runs[r].saved \in DOMAIN outputs
        /\ LET w == outputs[runs[r].saved]
           IN  /\ _slugify(runs[w].topic) = _slugify(runs[r].topic)
               /\ runs[w].minute = runs[r].minute
               /\ runs[w].saved = runs[r].saved

\* two runs with different topics of one slug saved in one minute, the second
\* over the first's reported file; and a third file name was not needed
C19_Witness ==
    /\ Reported = Runs
    /\ runs[1].topic # runs[2].topic
    /\ runs[1].minute = 1 /\ runs[2].minute = 1
    /\ runs[1].saved = runs[2].saved
    /\ outputs[runs[1].saved] = 2

\* is the sequence a a prefix of the sequence b
IsPrefix(a, b) == Len(a) <= Len(b) /\ \A i \in DOMAIN a : a[i] = b[i]

\* C20: at every instant at most one stage of any run is executing; an
\* executing stage's task holds the thread until the stage has finished; within
\* a run the stages begin in their order, each after the one before has
\* finished; a task without the thread is at a yield or sleep of its
\* generator, or has ended.
C20_OneStageAtATime ==
    /\ Cardinality({r \in DOMAIN runs : runs[r].phase = "executing"}) <= 1
    /\ \A r \in DOMAIN runs :
        /\ runs[r].phase = "executing" => running = r
        /\ IsPrefix(runs[r].begun, StageOrder)
        /\ Len(runs[r].begun) - runs[r].ended =
               (IF runs[r].phase = "executing" THEN 1 ELSE 0)
        /\ (running # r /\ runs[r].status = "active" /\ runs[r].ip > 1) =>
               Code(runs[r])[runs[r].ip - 1] \in {"yield", "yield_done", "sleep"}

\* one run is inside its rendering stage while the other, past its first
\* stages, waits at a suspension point
C20_Witness ==
    /\ running = 1
    /\ runs[1].phase = "executing" /\ At(runs[1]) = "generate_ppt"
    /\ runs[2].status = "active" /\ runs[2].ended = 3

\* the agents, in the order the orchestrator invokes them, and the progress
\* notification the orchestrator yields before each
AgentOrder == <<"collect_sources", "build_research_summary", "validate_research",
                "plan_charts_from_research", "generate_recommendations",
                "generate_slide_plan">>
NotificationOf(agent) ==
    CASE agent = "collect_sources" -> "Searching the web..."
      [] agent = "build_research_summary" -> "Analyzing and summarizing content..."
      [] agent = "validate_research" -> "Validating insights & cleaning output..."
      [] agent = "plan_charts_from_research" -> "Deriving chart data from research..."
      [] agent = "generate_recommendations" -> "Generating executive recommendations..."
      [] agent = "generate_slide_plan" -> "Generating slide plan..."
IsAgent(stage) == stage # "generate_ppt"

\* C21: every agent invocation issues exactly one generative-client call, never
\* a second one; a run that ends in DONE has issued exactly the six calls in the
\* agents' order, each after its stage's progress notification; a run that ends
\* in error at sourcing has issued exactly one.
C21_OneCallPerInvocation ==
    /\ calls = SelectSeq(started, IsAgent)
    /\ \A k \in DOMAIN calls :
        \E i \in DOMAIN events : events[i] = Progress(NotificationOf(calls[k]))
    /\ (events # <<>> /\ events[Len(events)].status = "DONE") => calls = AgentOrder
    /\ raisedIn = "collect_sources" => calls = <<"collect_sources">>

RecommendationFields == {"key_recommendations", "action_plan", "summary_recommendations"}

\* C22: whatever the generative output, validate_research returns a result with
\* the five validation fields and a confidence among high, medium and low, and
\* generate_recommendations returns a result with the three recommendation
\* fields.
C22_AgentResultsAreComplete ==
    /\ validation # Unset =>
        /\ IsDict(validation)
        /\ ValidationFields \subseteq DOMAIN validation.d
        /\ validation.d["confidence"] \in {"high", "medium", "low"}
    /\ recommendations # Unset =>
        /\ IsDict(recommendations)
        /\ RecommendationFields \subseteq DOMAIN recommendations.d

\* C23: for every run, streaming or not, the accent and the background colour
\* each renderer uses is the value of the request's theme_config when it has
\* the key and otherwise one fixed default, the same in both renderers,
\* whatever the generative output.
C23_ThemeFromRequestOrDefault ==
    unit_out.fn = "render_theme" =>
        LET request == unit_in.theme_config
            accent == Get(request, "accent_color", Hex("3", "8", "B", "D", "F", "8"))
            background == Get(request, "background_color", Hex("1", "2", "1", "2", "1", "2"))
        IN  /\ unit_out.document.accent_color = accent
            /\ unit_out.chart.accent = accent
            /\ unit_out.document.background_color = background
            /\ unit_out.chart.bg = background

\* C24: with runs interleaved at their suspension points and writing the chart
\* images under the same names, every chart image embedded in a run's deck is
\* the one that run generated; from the writing of the images to their
\* embedding the run keeps the thread and the files stay its own.
C24_EmbeddedChartsAreOwn ==
    \A r \in DOMAIN runs :
        /\ \A f \in DOMAIN runs[r].embedded : runs[r].embedded[f] = r
        /\ (runs[r].chart_step = "written" /\ runs[r].phase = "executing") =>
               /\ running = r
               /\ \A f \in RunChartFiles : outputs[f] = r

\* both runs have embedded their own images, the second after overwriting the
\* first's files
C24_Witness ==
    /\ \A r \in Runs : DOMAIN runs[r].embedded = RunChartFiles
    /\ \A f \in RunChartFiles :
           runs[1].embedded[f] = 1 /\ runs[2].embedded[f] = 2 /\ outputs[f] = 2

====
